---- MODULE Spec2Model ----
(***************************************************************************)
(* CTC beam search decoder of radian (src/radian/decode.py).               *)
(*                                                                         *)
(* Number representation.  A probability is a fixed-point integer: the     *)
(* weight w of a matrix row with weights summing to Denom stands for the   *)
(* probability w/Denom and is stored as w * RowUnit, so that the blend of  *)
(* combine_dists is exact in integers.  A value of the log domain          *)
(* (the BeamEntry fields) is represented by its antilogarithm in the fixed  *)
(* point: log(0) = -inf is NegInf = 0, the log-domain sum a + b is         *)
(* LogPlus(a, b) = a * b, and np.logaddexp(a, b) is a + b.  After t        *)
(* timesteps every entry of the beam state carries the same scale, so      *)
(* comparisons between entries are exact.  The float NaN is the value NaN, *)
(* which every arithmetic operation propagates and which compares unequal  *)
(* to everything (FloatEq), itself included.                               *)
(* Entropies are fixed-point too: natural logarithms in 1/1000 nat.        *)
(***************************************************************************)
EXTENDS Integers, Sequences, FiniteSets, TLC

VARIABLES
    mat,          \* the TxC probability matrix (argument)
    bases,        \* the alphabet, a sequence of characters (argument)
    beam_width,   \* argument
    lm,           \* language model: [present |-> BOOLEAN, table |-> context -> r_dist]
    s_threshold,  \* argument
    r_threshold,  \* argument
    len_context,  \* argument
    entr_cache,   \* the caller's dict: context -> entropy
    pc,           \* "call", "loop", "step", "done", "error"
    t,            \* number of timesteps processed
    last,         \* beam state of the previous timestep (BeamList)
    s_entropies,  \* per-timestep entropy of the signal distribution
    output,       \* best_seq
    err,          \* "none", "KeyError", "IndexError"
    lm_calls,     \* history: the calls of apply_rna_model made so far
    width2,       \* second decode call of the same matrix: its beam_width
    last2,        \* second decode call: its beam state
    curr,         \* beam state under construction (interleaved timestep)
    cache0,       \* entr_cache at the start of the interleaved timestep
    best,         \* best_labelings of the interleaved timestep
    pos,          \* interleaved timestep: next statement of each labeling
    loc           \* interleaved timestep: local variables of each labeling

vars == <<mat, bases, beam_width, lm, s_threshold, r_threshold, len_context,
          entr_cache, pc, t, last, s_entropies, output, err, lm_calls,
          width2, last2, curr, cache0, best, pos, loc>>

(***************************************************************************)
(* Bounds of the model.                                                    *)
(***************************************************************************)
MaxT == 3          \* longest matrix (timesteps)
MaxTLm == 2        \* longest matrix decoded with a language model
RDen == 2          \* a language-model distribution has weights summing to RDen
MaxWidth == 2      \* largest pruning beam_width

Alphabet == <<"A", "C">>
NSym == Len(Alphabet)          \* non-blank channels of the matrix
NChars == NSym + 1             \* chars = mat.shape[1]
\* a matrix row is a vector of weights summing to Denom: the probabilities are
\* the multiples of 1/chars, the coarsest grid that holds the uniform row
Denom == NChars
RowUnit == 2 * RDen
Symbols == 0 .. NSym - 1

NegInf == 0
NaN == -1

(***************************************************************************)
(* Generic helpers.                                                        *)
(***************************************************************************)
RECURSIVE SumSeq(_)
SumSeq(s) == IF s = <<>> THEN 0 ELSE Head(s) + SumSeq(Tail(s))

Min2(a, b) == IF a < b THEN a ELSE b
Max2(a, b) == IF a > b THEN a ELSE b

\* Python's s[a:b] for ints a, b (negative indexes count from the end).
PyIndex(i, n) == IF i < 0 THEN Max2(i + n, 0) ELSE Min2(i, n)
PySlice(s, a, b) == SubSeq(s, PyIndex(a, Len(s)) + 1, PyIndex(b, Len(s)))
\* Python's s[a:]
PySliceFrom(s, a) == SubSeq(s, PyIndex(a, Len(s)) + 1, Len(s))

(***************************************************************************)
(* Probability utilities.                                                  *)
(***************************************************************************)
\* round(1000 * math.log(n)) for n = 1 .. 48
LnMilli == <<0, 693, 1099, 1386, 1609, 1792, 1946, 2079, 2197, 2303, 2398, 2485,
             2565, 2639, 2708, 2773, 2833, 2890, 2944, 2996, 3045, 3091, 3135,
             3178, 3219, 3258, 3296, 3332, 3367, 3401, 3434, 3466, 3497, 3526,
             3555, 3584, 3611, 3638, 3664, 3689, 3714, 3738, 3761, 3784, 3807,
             3829, 3850, 3871>>

IsNaN(x) == x = NaN
FloatEq(a, b) == ~IsNaN(a) /\ ~IsNaN(b) /\ a = b

\* log(x): -inf for 0; math.log(nan) is nan
log(x) == IF x = 0 THEN NegInf ELSE x

\* a + b of two log-domain values
LogPlus(a, b) == IF IsNaN(a) \/ IsNaN(b) THEN NaN ELSE a * b

logaddexp(a, b) == IF IsNaN(a) \/ IsNaN(b) THEN NaN ELSE a + b

\* normalise(dist): a distribution is [n |-> numerators, d |-> denominator];
\* a zero sum returns the argument, else every entry is divided by the sum.
normalise(dist) ==
    IF SumSeq(dist.n) = 0 THEN dist ELSE [n |-> dist.n, d |-> SumSeq(dist.n)]

\* entropy(dist) in 1/1000 nat: -sum(p * log p) over the entries p = n/d > 0
RECURSIVE EntropyTerms(_, _)
EntropyTerms(ns, d) ==
    IF ns = <<>> THEN 0
    ELSE (IF Head(ns) > 0 THEN Head(ns) * (LnMilli[d] - LnMilli[Head(ns)]) ELSE 0)
         + EntropyTerms(Tail(ns), d)

entropy(dist) == EntropyTerms(dist.n, dist.d) \div dist.d

(***************************************************************************)
(* Contexts and fusion.                                                    *)
(***************************************************************************)
get_context(labeling, n, exclude_last) ==
    IF exclude_last THEN PySlice(labeling, -(n + 1), -1)
    ELSE PySliceFrom(labeling, -n)

\* combine_dists: with sb = sum(s_dist[:-1]) the blended channel i is
\* ((r_i/RDen + s_i/sb) / 2) * sb = (r_i*sb + RDen*s_i) / (2*RDen), exact
\* because s_i and sb are multiples of RowUnit; sb = 0 divides 0 by 0 (nan).
combine_dists(r_dist, s_dist) ==
    LET s_base_prob == SumSeq(SubSeq(s_dist, 1, Len(s_dist) - 1))
    IN  [i \in 1 .. Len(s_dist) |->
            IF i = Len(s_dist) THEN s_dist[i]
            ELSE IF s_base_prob = 0 THEN NaN
            ELSE (r_dist[i] * s_base_prob + RDen * s_dist[i]) \div (2 * RDen)]

FuseGate(r_entropy, s_entropy) == r_entropy < r_threshold /\ s_entropy > s_threshold

\* apply_rna_model returns the distribution, the updated cache, the error
\* raised (model[context] of a missing context is a KeyError) and the call.
apply_rna_model(s_dist, context, model, cache, s_entropy) ==
    IF ~model.present
    THEN [dist |-> s_dist, cache |-> cache, err |-> "none", calls |-> {}]
    ELSE IF context \notin DOMAIN model.table
    THEN [dist |-> s_dist, cache |-> cache, err |-> "KeyError",
          calls |-> {[context |-> context, found |-> FALSE, blended |-> FALSE,
                      s_dist |-> s_dist, result |-> s_dist]}]
    ELSE LET r_dist == model.table[context]
             hit == context \in DOMAIN cache
             r_entropy == IF hit THEN cache[context]
                          ELSE entropy([n |-> r_dist, d |-> RDen])
             blend == FuseGate(r_entropy, s_entropy)
             res == IF blend THEN combine_dists(r_dist, s_dist) ELSE s_dist
         IN  [dist |-> res,
              cache |-> IF hit THEN cache ELSE (context :> r_entropy) @@ cache,
              err |-> "none",
              calls |-> {[context |-> context, found |-> TRUE, blended |-> blend,
                          s_dist |-> s_dist, result |-> res]}]

(***************************************************************************)
(* Beam state.  A BeamList is the dict of entries in insertion order (the  *)
(* order sorted() keeps among entries of equal pr_total).                  *)
(***************************************************************************)
BeamEntry == [labeling |-> <<>>, pr_total |-> NegInf, pr_non_blank |-> NegInf,
              pr_blank |-> NegInf]

Has(bl, L) == \E i \in 1 .. Len(bl) : bl[i].labeling = L

\* entries[L] of the defaultdict, read
Entry(bl, L) ==
    IF Has(bl, L) THEN bl[CHOOSE i \in 1 .. Len(bl) : bl[i].labeling = L]
    ELSE [BeamEntry EXCEPT !.labeling = L]

\* entries[L].labeling = L, which creates the entry when it is missing
Touch(bl, L) == IF Has(bl, L) THEN bl ELSE Append(bl, [BeamEntry EXCEPT !.labeling = L])

\* entries[L].field = v
SetField(b, L, field, v) ==
    [i \in 1 .. Len(b) |-> IF b[i].labeling = L THEN [b[i] EXCEPT ![field] = v] ELSE b[i]]

OverwriteField(bl, L, field, v) == SetField(Touch(bl, L), L, field, v)

\* entries[L].field = np.logaddexp(entries[L].field, v)
AddField(b, L, field, v) ==
    [i \in 1 .. Len(b) |->
        IF b[i].labeling = L THEN [b[i] EXCEPT ![field] = logaddexp(@, v)] ELSE b[i]]

Accumulate(bl, L, field, v) == AddField(Touch(bl, L), L, field, v)

(***************************************************************************)
(* sorted(beams, reverse=True, key=pr_total) as CPython's list sort runs   *)
(* it on fewer than 64 elements: the list is reversed, the leading run is  *)
(* found (and reversed when strictly descending), the remaining elements   *)
(* are inserted by binary search, and the result is reversed again.  The   *)
(* only comparison is <, which is false whenever a key is nan.  Without a  *)
(* nan the result is the stable descending order.                          *)
(***************************************************************************)
FloatLt(a, b) == ~IsNaN(a) /\ ~IsNaN(b) /\ a < b

Reverse(s) == [i \in 1 .. Len(s) |-> s[Len(s) + 1 - i]]

\* count_run: the length of the run that starts the list; i is the next index
RECURSIVE RunLength(_, _, _)
RunLength(s, i, descending) ==
    IF i > Len(s) THEN Len(s)
    ELSE IF FloatLt(s[i].pr_total, s[i - 1].pr_total) = descending
    THEN RunLength(s, i + 1, descending)
    ELSE i - 1

\* binarysort's search of the place of pivot in the sorted s[1 .. n], 0-based
RECURSIVE InsertionPoint(_, _, _, _)
InsertionPoint(s, pivot, l, r) ==
    IF l >= r THEN l
    ELSE LET p == l + ((r - l) \div 2)
         IN  IF FloatLt(pivot.pr_total, s[p + 1].pr_total)
             THEN InsertionPoint(s, pivot, l, p)
             ELSE InsertionPoint(s, pivot, p + 1, r)

InsertAt(s, l, x) == SubSeq(s, 1, l) \o <<x>> \o SubSeq(s, l + 1, Len(s))

\* binarysort: sorted is in order, rest is still to insert
RECURSIVE BinarySort(_, _)
BinarySort(sorted, rest) ==
    IF rest = <<>> THEN sorted
    ELSE BinarySort(InsertAt(sorted, InsertionPoint(sorted, Head(rest), 0, Len(sorted)),
                             Head(rest)),
                    Tail(rest))

ListSort(s) ==
    IF Len(s) < 2 THEN s
    ELSE LET descending == FloatLt(s[2].pr_total, s[1].pr_total)
             n == RunLength(s, 3, descending)
             run == SubSeq(s, 1, n)
         IN  BinarySort(IF descending THEN Reverse(run) ELSE run,
                        SubSeq(s, n + 1, Len(s)))

Sorted(bl, reverse) == IF reverse THEN Reverse(ListSort(Reverse(bl))) ELSE ListSort(bl)

Labelings(bl) == [i \in 1 .. Len(bl) |-> bl[i].labeling]

\* sort_labelings with reverse=True left out
sort_labelings_ascending(bl) == Labelings(Sorted(bl, FALSE))

sort_labelings(bl) == Labelings(Sorted(bl, TRUE))

(***************************************************************************)
(* One timestep of beam_search, statement by statement.  The statements of *)
(* one labeling of best_labelings are numbered 1 .. NStmts:                *)
(*   1          lines 153-172  COPY: pr_non_blank, pr_blank; pr_non_blank  *)
(*                             accumulated                                 *)
(*   2          line 173       pr_blank accumulated                        *)
(*   3          lines 174-175  pr_total accumulated                        *)
(*   4          lines 180-184  EXTEND: pr_dist                             *)
(*   5 + 2c     lines 189-200  pr_non_blank of labeling + (c,) accumulated *)
(*   6 + 2c     line 201       pr_total of labeling + (c,) accumulated     *)
(* A statement maps a record st to the next one: curr, cache (entr_cache), *)
(* calls and err are shared by the labelings; pr_non_blank, pr_blank and   *)
(* pr_dist are the local variables of the labeling.                        *)
(***************************************************************************)
NStmts == 4 + 2 * NSym

NoLocals == [pr_non_blank |-> NegInf, pr_blank |-> NegInf, pr_dist |-> <<>>]

Frame(c, cache, calls, lc) ==
    [curr |-> c, cache |-> cache, calls |-> calls, err |-> "none",
     pr_non_blank |-> lc.pr_non_blank, pr_blank |-> lc.pr_blank,
     pr_dist |-> lc.pr_dist]

Locals(st) ==
    [pr_non_blank |-> st.pr_non_blank, pr_blank |-> st.pr_blank,
     pr_dist |-> st.pr_dist]

Truthy(model) == model.present /\ DOMAIN model.table # {}

blank_idx == Len(bases)

LastSym(L) == L[Len(L)]

\* the distribution of line 161 or 182 (r is what apply_rna_model returned), or
\* of line 163 or 184
Fused(st, r) == [st EXCEPT !.cache = r.cache, !.calls = @ \cup r.calls,
                           !.err = r.err, !.pr_dist = r.dist]
Raw(st, row) == [st EXCEPT !.pr_dist = row]

\* lines 153-165
CopyDist(L, tt, st) ==
    IF L # <<>> /\ Truthy(lm) /\ Len(L) >= len_context + 1
    THEN Fused(st, apply_rna_model(mat[tt + 1], get_context(L, len_context, TRUE),
                                   lm, st.cache, s_entropies[tt + 1]))
    ELSE Raw(st, mat[tt + 1])

\* lines 165-172, after the distribution st.pr_dist was chosen
CopyMass(L, prev, tt, st) ==
    IF st.err # "none" THEN st
    ELSE IF blank_idx >= Len(mat[tt + 1]) THEN [st EXCEPT !.err = "IndexError"]
    ELSE LET e == Entry(prev, L)
             pr_non_blank == IF L # <<>>
                             THEN LogPlus(e.pr_non_blank, log(st.pr_dist[LastSym(L) + 1]))
                             ELSE log(0)
         IN  [st EXCEPT !.pr_non_blank = pr_non_blank,
                        !.pr_blank = LogPlus(e.pr_total, log(mat[tt + 1][blank_idx + 1])),
                        !.curr = Accumulate(@, L, "pr_non_blank", pr_non_blank)]

\* lines 180-184
ExtendDist(L, tt, st) ==
    IF Truthy(lm) /\ Len(L) >= len_context
    THEN Fused(st, apply_rna_model(mat[tt + 1], get_context(L, len_context, FALSE),
                                   lm, st.cache, s_entropies[tt + 1]))
    ELSE Raw(st, mat[tt + 1])

\* ExtendMass without the duplicate rule of line 192
ExtendMassAnyPath(L, prev, c, pr_dist) ==
    LogPlus(Entry(prev, L).pr_total, log(pr_dist[c + 1]))

\* lines 192-195: a duplicate last symbol continues only the paths ending in a blank
ExtendMass(L, prev, c, pr_dist) ==
    IF L # <<>> /\ LastSym(L) = c
    THEN LogPlus(Entry(prev, L).pr_blank, log(pr_dist[c + 1]))
    ELSE LogPlus(Entry(prev, L).pr_total, log(pr_dist[c + 1]))

\* lines 198-200
ExtendNonBlank(L, c, st, pr_non_blank) ==
    [st EXCEPT !.pr_non_blank = pr_non_blank,
               !.curr = Accumulate(@, Append(L, c), "pr_non_blank", pr_non_blank)]

Stmt(L, k, prev, tt, st) ==
    IF k = 1 THEN CopyMass(L, prev, tt, CopyDist(L, tt, st))
    ELSE IF k = 2 THEN [st EXCEPT !.curr = Accumulate(@, L, "pr_blank", st.pr_blank)]
    ELSE IF k = 3
    THEN [st EXCEPT !.curr = Accumulate(@, L, "pr_total",
                                        logaddexp(st.pr_blank, st.pr_non_blank))]
    ELSE IF k = 4 THEN ExtendDist(L, tt, st)
    ELSE IF (k - 5) % 2 = 0
    THEN ExtendNonBlank(L, (k - 5) \div 2, st,
                        ExtendMass(L, prev, (k - 5) \div 2, st.pr_dist))
    ELSE [st EXCEPT !.curr = Accumulate(@, Append(L, (k - 5) \div 2), "pr_total",
                                        st.pr_non_blank)]

\* the statements k .. NStmts of one labeling, in program order, up to a raise
RECURSIVE RunLabeling(_, _, _, _, _)
RunLabeling(L, k, prev, tt, st) ==
    IF k > NStmts \/ st.err # "none" THEN st
    ELSE RunLabeling(L, k + 1, prev, tt, Stmt(L, k, prev, tt, st))

\* the loop of line 148 over best_labelings
RECURSIVE RunTimestep(_, _, _, _)
RunTimestep(labelings, prev, tt, st) ==
    IF labelings = <<>> \/ st.err # "none" THEN st
    ELSE RunTimestep(Tail(labelings), prev, tt,
                     RunLabeling(Head(labelings), 1, prev, tt, st))

(***************************************************************************)
(* Inputs.                                                                 *)
(***************************************************************************)
\* the rows of a matrix: weights summing to Denom, in fixed point
Rows == {[i \in 1 .. NChars |-> w[i] * RowUnit] :
            w \in {v \in [1 .. NChars -> 0 .. Denom] : SumSeq(v) = Denom}}

Matrices(maxT) == UNION {[1 .. n -> Rows] : n \in 0 .. maxT}

\* the language-model distributions over the non-blank symbols
RDists == {v \in [1 .. NSym -> 0 .. RDen] : SumSeq(v) = RDen}

Contexts(n) == [1 .. n -> Symbols]

Rotate(d) == IF d = <<>> THEN d ELSE Append(Tail(d), Head(d))

\* a context-indexed table: d after a context that is empty or ends in symbol 0,
\* d rotated after any other
Table(ctxs, d) ==
    [c \in ctxs |-> IF c = <<>> \/ LastSym(c) = 0 THEN d ELSE Rotate(d)]

NoLm == [present |-> FALSE, table |-> <<>>]

\* full coverage of every context length, coverage of the configured length
\* only, and partial coverage of the configured length
Models(n) ==
    {[present |-> TRUE, table |-> Table(ctxs, d)] :
        ctxs \in {UNION {Contexts(m) : m \in 0 .. MaxTLm},
                  Contexts(n),
                  {c \in Contexts(n) : \A i \in 1 .. n : c[i] = 0}},
        d \in RDists}

ValidBases == Alphabet
BasesChoices == {SubSeq(Alphabet, 1, NSym - 1), Alphabet, Append(Alphabet, "G")}

\* a beam_width under which nothing is pruned: at least the number of labelings
NumLabelings(maxT) == SumSeq([n \in 1 .. maxT + 1 |-> Cardinality(Contexts(n - 1))])
FullWidth == NumLabelings(MaxT + 1)

\* InitBeam without line 131
InitBeamNoBlank ==
    <<[BeamEntry EXCEPT !.labeling = <<>>, !.pr_total = log(1)]>>

InitBeam ==
    <<[BeamEntry EXCEPT !.labeling = <<>>, !.pr_blank = log(1), !.pr_total = log(1)]>>

InitCall ==
    /\ entr_cache = <<>>
    /\ pc = "call"
    /\ t = 0
    /\ last = <<>>
    /\ s_entropies = <<>>
    /\ output = <<>>
    /\ err = "none"
    /\ lm_calls = {}
    /\ curr = <<>>
    /\ cache0 = <<>>
    /\ best = <<>>
    /\ pos = <<>>
    /\ loc = <<>>

NoSecond == width2 = 0 /\ last2 = <<>>

\* a valid call with a language model
InitLm ==
    /\ mat \in Matrices(MaxTLm)
    /\ bases = ValidBases
    /\ beam_width \in {1, MaxWidth}
    /\ len_context \in 0 .. 1
    /\ lm \in Models(len_context)
    /\ \E th \in {<<-1, 1000>>, <<650, 500>>} :
          s_threshold = th[1] /\ r_threshold = th[2]

\* a call without a language model, of any configuration
InitAnyConfig ==
    /\ mat \in Matrices(MaxTLm)
    /\ bases \in BasesChoices
    /\ beam_width \in -1 .. MaxWidth
    /\ len_context = 0
    /\ lm = NoLm
    /\ s_threshold = 0
    /\ r_threshold = 0

Init == InitCall /\ NoSecond /\ (InitLm \/ InitAnyConfig)

\* a valid call without a language model
InitSig ==
    /\ InitCall /\ NoSecond
    /\ mat \in Matrices(MaxT)
    /\ bases = ValidBases
    /\ beam_width \in {1, FullWidth}
    /\ len_context = 0
    /\ lm = NoLm
    /\ s_threshold = 0
    /\ r_threshold = 0

(***************************************************************************)
(* beam_search.                                                            *)
(***************************************************************************)
Args == <<mat, bases, beam_width, lm, s_threshold, r_threshold, len_context>>
Interleaved == <<curr, cache0, best, pos, loc>>
Second == <<width2, last2>>

\* lines 124-138: the beam state and the entropies of the rows
SignalEntropies ==
    [i \in 1 .. Len(mat) |->
        entropy(normalise([n |-> SubSeq(mat[i], 1, Len(mat[i]) - 1),
                           d |-> Denom * RowUnit]))]

Enter ==
    /\ pc = "call"
    /\ pc' = "loop"
    /\ last' = InitBeam
    /\ s_entropies' = SignalEntropies
    /\ UNCHANGED <<Args, Second, Interleaved, entr_cache, t, output, err, lm_calls>>

\* lines 141-204: one iteration of the loop over the timesteps
TimeStep ==
    /\ pc = "loop"
    /\ t < Len(mat)
    /\ \E sh \in {RunTimestep(PySlice(sort_labelings(last), 0, beam_width), last, t,
                             Frame(<<>>, entr_cache, lm_calls, NoLocals))} :
              /\ entr_cache' = sh.cache
              /\ lm_calls' = sh.calls
              /\ err' = sh.err
              /\ pc' = IF sh.err = "none" THEN "loop" ELSE "error"
              /\ last' = IF sh.err = "none" THEN sh.curr ELSE last
              /\ t' = IF sh.err = "none" THEN t + 1 ELSE t
    /\ UNCHANGED <<Args, Second, Interleaved, s_entropies, output>>

\* lines 207-212: last.sort_labelings()[0], mapped to the bases
BestSeq(labeling) == [i \in 1 .. Len(labeling) |-> bases[labeling[i] + 1]]

Finish ==
    /\ pc = "loop"
    /\ t = Len(mat)
    /\ \E labelings \in {sort_labelings(last)} :
          LET raises == labelings = <<>>
                        \/ \E i \in 1 .. Len(labelings[1]) :
                              labelings[1][i] >= Len(bases)
          IN  /\ pc' = IF raises THEN "error" ELSE "done"
              /\ err' = IF raises THEN "IndexError" ELSE "none"
              /\ output' = IF raises THEN output ELSE BestSeq(labelings[1])
    /\ UNCHANGED <<Args, Second, Interleaved, entr_cache, t, last, s_entropies, lm_calls>>

Next == Enter \/ TimeStep \/ Finish

Spec == Init /\ [][Next]_vars

SpecSig == InitSig /\ [][Next]_vars

(***************************************************************************)
(* Two decode calls of one matrix that differ in beam_width only, run side *)
(* by side: the call with beam_width and the call with width2.             *)
(***************************************************************************)
\* rows in which the blank is neither impossible nor certain and no symbol
\* outweighs the symbol before it
OpenRows ==
    {r \in Rows : /\ r[NChars] > 0 /\ r[NChars] < Denom * RowUnit
                  /\ \A i \in 2 .. NSym : r[i] <= r[i - 1]}

\* a width against the next one, and every width against the unpruned search
WidthPairs ==
    {<<MaxWidth, MaxWidth + 1>>} \cup {<<k, FullWidth>> : k \in 1 .. MaxWidth}

InitPair ==
    /\ InitCall
    /\ mat \in UNION {[1 .. n -> OpenRows] : n \in 0 .. MaxT + 1}
    /\ bases = ValidBases
    /\ \E w \in WidthPairs : beam_width = w[1] /\ width2 = w[2]
    /\ last2 = <<>>
    /\ len_context = 0
    /\ lm = NoLm
    /\ s_threshold = 0
    /\ r_threshold = 0

EnterPair ==
    /\ pc = "call"
    /\ pc' = "loop"
    /\ last' = InitBeam
    /\ last2' = InitBeam
    /\ s_entropies' = SignalEntropies
    /\ UNCHANGED <<Args, width2, Interleaved, entr_cache, t, output, err, lm_calls>>

NextBeam(prev, width) ==
    RunTimestep(PySlice(sort_labelings(prev), 0, width), prev, t,
                Frame(<<>>, entr_cache, lm_calls, NoLocals)).curr

TimeStepPair ==
    /\ pc = "loop"
    /\ t < Len(mat)
    /\ last' = NextBeam(last, beam_width)
    /\ last2' = NextBeam(last2, width2)
    /\ t' = t + 1
    /\ UNCHANGED <<Args, width2, Interleaved, entr_cache, pc, s_entropies, output,
                   err, lm_calls>>

FinishPair ==
    /\ pc = "loop"
    /\ t = Len(mat)
    /\ pc' = "done"
    /\ output' = BestSeq(sort_labelings(last)[1])
    /\ UNCHANGED <<Args, Second, Interleaved, entr_cache, t, last, s_entropies, err,
                   lm_calls>>

NextPair == EnterPair \/ TimeStepPair \/ FinishPair

SpecPair == InitPair /\ [][NextPair]_vars

(***************************************************************************)
(* One timestep with the statements of the labelings of best_labelings     *)
(* interleaved: each labeling runs its statements 1 .. NStmts in program   *)
(* order, one statement (one accumulate) at a time, in any order among the *)
(* labelings.                                                              *)
(***************************************************************************)
\* the rows of OpenRows that give no symbol more than one unit of weight
ParRows == {r \in OpenRows : r[1] <= RowUnit}

InitPar ==
    /\ InitCall /\ NoSecond
    /\ mat \in UNION {[1 .. n -> ParRows] : n \in 0 .. MaxTLm}
    /\ bases = ValidBases
    /\ beam_width = 2           \* the statements of two labelings are interleaved
    /\ len_context \in 0 .. 1
    /\ lm \in Models(len_context)
    /\ s_threshold = -1
    /\ r_threshold = 1000

BeginStep ==
    /\ pc = "loop"
    /\ t < Len(mat)
    /\ pc' = "step"
    /\ best' = PySlice(sort_labelings(last), 0, beam_width)
    /\ pos' = [i \in 1 .. Len(best') |-> 1]
    /\ loc' = [i \in 1 .. Len(best') |-> NoLocals]
    /\ curr' = <<>>
    /\ cache0' = entr_cache
    /\ UNCHANGED <<Args, Second, entr_cache, t, last, s_entropies, output, err, lm_calls>>

StmtStep(i) ==
    /\ pc = "step"
    /\ pos[i] <= NStmts
    /\ \E st \in {Stmt(best[i], pos[i], last, t,
                       Frame(curr, entr_cache, lm_calls, loc[i]))} :
          /\ curr' = st.curr
          /\ entr_cache' = st.cache
          /\ lm_calls' = st.calls
          /\ err' = st.err
          /\ pc' = IF st.err = "none" THEN "step" ELSE "error"
          /\ loc' = [loc EXCEPT ![i] = Locals(st)]
          /\ pos' = [pos EXCEPT ![i] = IF st.err = "none" THEN @ + 1 ELSE @]
    /\ UNCHANGED <<Args, Second, cache0, best, t, last, s_entropies, output>>

StepComplete == pc = "step" /\ \A i \in 1 .. Len(best) : pos[i] > NStmts

EndStep ==
    /\ StepComplete
    /\ pc' = "loop"
    /\ last' = curr
    /\ t' = t + 1
    /\ UNCHANGED <<Args, Second, Interleaved, entr_cache, s_entropies, output, err,
                   lm_calls>>

NextPar ==
    \/ Enter
    \/ BeginStep
    \/ \E i \in 1 .. Len(best) : StmtStep(i)
    \/ EndStep
    \/ Finish

SpecPar == InitPar /\ [][NextPar]_vars

(***************************************************************************)
(* Reference definitions of the properties.                                *)
(***************************************************************************)
\* The summed probability of the alignments of the first n rows (one channel
\* per row, channel NChars the blank) that collapse to labeling L: consecutive
\* equal channels merged, blanks dropped.  i is the row, prev the channel of
\* row i - 1 (0 before the first), lab the collapse so far.
RECURSIVE AlignSum(_, _, _, _, _)
AlignSum(i, prev, lab, n, L) ==
    IF i > n THEN (IF lab = L THEN 1 ELSE 0)
    ELSE SumSeq([ch \in 1 .. NChars |->
            IF mat[i][ch] = 0 THEN 0
            ELSE mat[i][ch] * AlignSum(i + 1, ch,
                                       IF ch # prev /\ ch # NChars
                                       THEN Append(lab, ch - 1) ELSE lab,
                                       n, L)])

AlignmentMass(L, n) == AlignSum(1, 0, <<>>, n, L)

\* np.argmax of a row: the first channel of largest probability
ArgMax(row) ==
    CHOOSE i \in 1 .. Len(row) :
        /\ \A j \in 1 .. Len(row) : row[j] <= row[i]
        /\ \A j \in 1 .. i - 1 : row[j] < row[i]

RECURSIVE GreedyFrom(_, _)
GreedyFrom(i, prev) ==
    IF i > Len(mat) THEN <<>>
    ELSE LET ch == ArgMax(mat[i])
         IN  (IF ch # prev /\ ch # NChars THEN <<ch - 1>> ELSE <<>>)
             \o GreedyFrom(i + 1, ch)

\* greedy decoding: argmax per timestep, duplicates merged, blanks dropped
GreedyLabeling == GreedyFrom(1, 0)

NoModelConfigured == ~Truthy(lm)

ValidConfig == beam_width > 0 /\ Len(bases) = NChars - 1

FloatSum(s) == IF \E i \in 1 .. Len(s) : IsNaN(s[i]) THEN NaN ELSE SumSeq(s)

NonBlank(dist) == SubSeq(dist, 1, Len(dist) - 1)

\* the blank is a largest entry of the row
BlankIsMax(row) == \A j \in 1 .. Len(row) : row[j] <= row[NChars]

\* the blank is the largest entry of the row alone, or is not a largest entry
BlankUntied(row) == ArgMax(row) = NChars \/ ~BlankIsMax(row)

\* one channel of the row has probability 1
OneHot(row) == \E i \in 1 .. Len(row) : row[i] = Denom * RowUnit

RECURSIVE MaxTotal(_)
MaxTotal(bl) ==
    IF bl = <<>> THEN 0 ELSE Max2(Head(bl).pr_total, MaxTotal(Tail(bl)))

EntrySet(bl) == {bl[i] : i \in 1 .. Len(bl)}

\* the timestep under way run as the loop of line 148 runs it
InOrder == RunTimestep(best, last, t, Frame(<<>>, cache0, {}, NoLocals))

(***************************************************************************)
(* C1.  With no language model and a beam_width that prunes nothing, after *)
(* t timesteps every labeling L of the beam state has pr_total[L] equal to *)
(* the summed probability of the length-t alignments that collapse to L.   *)
(***************************************************************************)
C1_ExactMass ==
    (NoModelConfigured /\ ValidConfig /\ beam_width >= FullWidth
                       /\ pc \in {"loop", "done"})
        => \A i \in 1 .. Len(last) :
              last[i].pr_total = AlignmentMass(last[i].labeling, t)

C1_Witness ==
    /\ NoModelConfigured /\ ValidConfig /\ beam_width >= FullWidth
    /\ pc = "done" /\ t = MaxT
    /\ \E i \in 1 .. Len(last) :
          /\ last[i].labeling = <<0, 0>>
          /\ last[i].pr_total > 0

(***************************************************************************)
(* C2.  In the initial beam state and after every timestep, every labeling *)
(* of the beam state has pr_total = log_add(pr_blank, pr_non_blank).       *)
(***************************************************************************)
C2_EntryInvariant ==
    pc \in {"loop", "done", "error"}
        => \A i \in 1 .. Len(last) :
              FloatEq(last[i].pr_total,
                      logaddexp(last[i].pr_blank, last[i].pr_non_blank))

(***************************************************************************)
(* C3.  With beam_width = 1 and no language model the output equals the    *)
(* greedy decoding of the matrix.                                          *)
(***************************************************************************)
C3_Greedy ==
    (NoModelConfigured /\ ValidConfig /\ beam_width = 1 /\ pc = "done")
        => output = BestSeq(GreedyLabeling)

(***************************************************************************)
(* C3, narrowed.  With beam_width = 1 and no language model the output     *)
(* equals the greedy decoding when the matrix has at most one timestep and *)
(* the blank does not tie with the largest symbol probability of it, or    *)
(* when every row of the matrix gives one channel the probability 1.       *)
(***************************************************************************)
C3_GreedyOneStep ==
    (NoModelConfigured /\ ValidConfig /\ beam_width = 1 /\ pc = "done"
        /\ \/ Len(mat) <= 1 /\ \A i \in 1 .. Len(mat) : BlankUntied(mat[i])
           \/ \A i \in 1 .. Len(mat) : OneHot(mat[i]))
        => output = BestSeq(GreedyLabeling)

C3_Witness ==
    /\ NoModelConfigured /\ ValidConfig /\ beam_width = 1 /\ pc = "done"
    /\ Len(mat) = 1 /\ ~BlankIsMax(mat[1]) /\ ~OneHot(mat[1])
    /\ output = BestSeq(GreedyLabeling) /\ output # <<>>

(***************************************************************************)
(* C5.  An invalid configuration (beam_width <= 0, or an alphabet whose    *)
(* length is not the channel count minus one) is rejected at call entry:   *)
(* the call ends in an error before any timestep is processed and before   *)
(* any beam state beyond the initial one is built.                         *)
(***************************************************************************)
C5_RejectedAtEntry ==
    ~ValidConfig => /\ pc # "done"
                    /\ t = 0
                    /\ last \in {<<>>, InitBeam}
                    /\ lm_calls = {}

(***************************************************************************)
(* C6.  A context the language model has no entry for never aborts the     *)
(* decode: the lookup falls back to the signal distribution.               *)
(***************************************************************************)
C6_NoAbort ==
    /\ err # "KeyError"
    /\ \A q \in lm_calls : ~q.found => q.result = q.s_dist

(***************************************************************************)
(* C7.  Every context handed to the language model holds exactly           *)
(* len_context symbols, for every len_context >= 0.                        *)
(***************************************************************************)
C7_ContextLength == \A q \in lm_calls : Len(q.context) = len_context

(***************************************************************************)
(* C8.  Fusion returns the signal distribution unchanged unless            *)
(* r_entropy < r_threshold and s_entropy > s_threshold; a blend keeps the  *)
(* blank channel and the sum of the non-blank channels of the signal.      *)
(***************************************************************************)
C8_FusionPreserves ==
    \A q \in lm_calls :
        q.found =>
            /\ ~q.blended => q.result = q.s_dist
            /\ q.blended =>
                  /\ FloatEq(q.result[Len(q.result)], q.s_dist[Len(q.s_dist)])
                  /\ FloatEq(FloatSum(NonBlank(q.result)), SumSeq(NonBlank(q.s_dist)))

(***************************************************************************)
(* C9.  An empty matrix (T = 0) makes beam_search return the empty string: *)
(* no timestep runs and the initial beam state, the empty labeling with    *)
(* pr_blank = pr_total = log(1) and pr_non_blank = log(0), is the final    *)
(* one.                                                                    *)
(***************************************************************************)
C9_EmptyMatrix ==
    Len(mat) = 0 =>
        /\ pc # "error"
        /\ t = 0
        /\ lm_calls = {}
        /\ pc = "done" =>
              /\ output = <<>>
              /\ last = <<[labeling |-> <<>>, pr_total |-> 1, pr_non_blank |-> 0,
                           pr_blank |-> 1]>>

C9_Witness == Len(mat) = 0 /\ pc = "done" /\ output = <<>>

(***************************************************************************)
(* C4.  For beam widths 1 <= k < k' the maximal pr_total of the final beam *)
(* state of the call with k' is at least that of the call with k.          *)
(***************************************************************************)
C4_Monotone ==
    (pc = "done" /\ beam_width < width2) => MaxTotal(last2) >= MaxTotal(last)

(***************************************************************************)
(* C4, narrowed.  The call whose beam_width prunes nothing (at least the   *)
(* number of labelings) ends with a maximal pr_total at least that of the  *)
(* call with any beam_width k >= 1.                                        *)
(***************************************************************************)
C4_UnprunedIsBest ==
    (pc = "done" /\ beam_width >= 1 /\ width2 >= NumLabelings(Len(mat)))
        => MaxTotal(last2) >= MaxTotal(last)

C4_Witness ==
    /\ pc = "done" /\ beam_width = MaxWidth /\ width2 >= NumLabelings(Len(mat))
    /\ t = MaxT + 1
    /\ MaxTotal(last2) > MaxTotal(last)
    /\ MaxTotal(last) > 0

(***************************************************************************)
(* C10.  Within one timestep the transitions of the labelings are          *)
(* independent: none writes the previous beam state, and the statements of *)
(* the retained labelings, interleaved in any order, build the same new    *)
(* beam state and the same entropy cache as the loop of line 148.          *)
(***************************************************************************)
C10_OrderIndependent ==
    /\ pc = "step" => \A i \in 1 .. Len(best) : Has(last, best[i])
    /\ StepComplete =>
          /\ EntrySet(curr) = EntrySet(InOrder.curr)
          /\ Len(curr) = Len(InOrder.curr)
          /\ entr_cache = InOrder.cache

C10_Witness ==
    /\ StepComplete
    /\ Len(best) >= 2
    /\ Truthy(lm)
    /\ DOMAIN entr_cache # DOMAIN cache0
    /\ curr # InOrder.curr

====
